---- MODULE Spec2Model ----
(***************************************************************************)
(* Clinic front-desk application (src/app.py): doctor presence, room       *)
(* routing of newly registered visits, and the consultation workflow.      *)
(*                                                                         *)
(* The persisted store is the three tables User, Patient and Visit; the    *)
(* only process-wide state besides it is the TRANSCRIPTS dictionary.  Each *)
(* route handler runs in one database transaction and is one action.       *)
(*                                                                         *)
(* The nurse's requests are served under a nurse session; a doctor's      *)
(* requests need the session cookie that /login sets.  Handlers that only  *)
(* read the store, or write fields not kept here (update_patient: name and *)
(* age), are not steps of Next.                                            *)
(*                                                                         *)
(* Representation: None is 0 (room, doctor_id, soap_note); a room "r" is   *)
(* the integer r (str is injective on 1..10); a note is an opaque token.   *)
(***************************************************************************)
EXTENDS Integers, FiniteSets, Sequences, TLC

\* ---------------------------------------------------------------- bounds
\* doctor accounts that ever log in
MaxDoctors == 2
\* rooms a doctor selects on the login form: 1..MaxRoom
MaxRoom == 2
\* largest Visit.id ever allocated
MaxVisits == 2
\* largest Patient.id ever allocated, and number of IC numbers in use
MaxPatients == 1
\* distinct note texts posted to /save_consultation
MaxNote == 1
\* characters the recogniser returns for one audio chunk, before strip()
MaxChunk == 1
\* characters kept in one visit's transcript
MaxText == 3
\* requests served at the same time (threads of the server)
MaxRequests == 2

\* ------------------------------------------------------ program constants
\* range(1, 11) in find_available_room
NumRooms == 10

\* Python's None, and the empty form field
None == 0

\* ids of the User rows of role doctor
Doctors == 1..MaxDoctors
\* request.form.get("room"): None when the field is empty
FormRooms == 0..MaxRoom
\* request.json.get("status", "away")
StatusVals == {"online", "away"}
\* request.form["ic"], data["ic"]
ICs == 1..MaxPatients
\* request.form.get("patient_id")
PatientIds == 1..MaxPatients
\* the <int:visit_id> of the URL, data.get("visit_id")
VisitIds == 1..MaxVisits
\* data.get("note")
Notes == 1..MaxNote
\* threads serving requests
Slots == 1..MaxRequests

VARIABLES
    users,        \* User rows of role doctor: id -> [status, room]
    patients,     \* Patient rows: id -> ic_number
    visits,       \* Visit rows: id -> [patient_id, doctor_id, status, room, soap_note]
    TRANSCRIPTS,  \* the in-memory dict: visit id -> accumulated text
    sessions,     \* doctors whose browser holds a session cookie
    inflight,     \* requests being served: slot -> what the handler has read
    rooms_data,   \* the room board last rendered by the nurse dashboard
    last          \* the last request served and its outcome

vars == <<users, patients, visits, TRANSCRIPTS, sessions, inflight, rooms_data,
         last>>

\* ---------------------------------------------------------------- helpers
Min(S) == CHOOSE x \in S : \A y \in S : x <= y
Max(S) == CHOOSE x \in S : \A y \in S : x >= y

\* INTEGER PRIMARY KEY on SQLite: the new rowid is the largest one plus one.
NextId(ids) == IF ids = {} THEN 1 ELSE Max(ids) + 1

\* Query.first() with no ORDER BY: SQLite scans the table in rowid order.
First(S) == IF S = {} THEN None ELSE Min(S)

Put(f, k, v) == [x \in DOMAIN f \cup {k} |-> IF x = k THEN v ELSE f[x]]
Restrict(f, S) == [x \in S |-> f[x]]

\* op: the route served; who: the doctor of the session (or None); arg: the
\* visit id it names (for /login, the room selected); res: its outcome.
Req(op, who, arg, res) == [op |-> op, who |-> who, arg |-> arg, res |-> res]

\* User.query.filter_by(role='doctor', room=r, status='online') over table u
OnlineIn(u, r) == {d \in Doctors : u[d].room = r /\ u[d].status = "online"}

\* A thread that serves no request.  op: the route; pc: how far the handler
\* has got; arg, room: what it has read; vid, res: what it has answered;
\* seen: the rooms claimed when it chose the room, if none of them had a
\* waiting visit; known: the patient it names existed when it started;
\* raced: another thread chose the same room before this one committed.
Idle ==
    [op |-> "idle", pc |-> "idle", arg |-> None, room |-> None,
     vid |-> None, res |-> "none", seen |-> {}, known |-> FALSE,
     raced |-> FALSE]

\* -------------------------------------------------------------- Init
\* After the seeded accounts have logged out and the seeded patients have
\* been deleted: every doctor away with no room, no patient, no visit.
Init ==
    /\ users = [d \in Doctors |-> [status |-> "away", room |-> None]]
    /\ patients = <<>>
    /\ visits = <<>>
    /\ TRANSCRIPTS = <<>>
    /\ sessions = {}
    /\ inflight = [s \in Slots |-> Idle]
    /\ rooms_data = <<>>
    /\ last = Req("none", None, None, "none")

\* Variant: a successful login with a room also moves every queued visit
\* into that room as waiting.
login_promotes(d, sel) ==
    LET flushed  == [users EXCEPT ![d].status = "online"]
        occupant == First(OnlineIn(flushed, sel))
    IN  /\ sessions' = sessions \cup {d}
        /\ IF sel # None /\ occupant # None /\ occupant # d
           THEN /\ users' = users
                /\ visits' = visits
                /\ last' = Req("login", d, sel, "RoomConflict")
           ELSE /\ users' = IF sel # None
                            THEN [flushed EXCEPT ![d].room = sel]
                            ELSE flushed
                /\ visits' = [v \in DOMAIN visits |->
                                IF sel # None /\ visits[v].status = "queued"
                                THEN [visits[v] EXCEPT !.status = "waiting",
                                                       !.room = sel]
                                ELSE visits[v]]
                /\ last' = Req("login", d, sel, "ok")
        /\ UNCHANGED <<patients, TRANSCRIPTS, inflight, rooms_data>>

\* -------------------------------------------------------------- /login
\* POST /login by doctor d with valid credentials and form room sel.
\* user.status = "online" is flushed by the occupant query (autoflush), so
\* the query sees the caller as online; a return without commit rolls the
\* transaction back.  The session cookie is set before the room check.
login(d, sel) ==
    LET flushed  == [users EXCEPT ![d].status = "online"]
        occupant == First(OnlineIn(flushed, sel))
    IN  /\ sessions' = sessions \cup {d}
        /\ IF sel # None /\ occupant # None /\ occupant # d
           THEN /\ users' = users
                /\ last' = Req("login", d, sel, "RoomConflict")
           ELSE /\ users' = IF sel # None
                            THEN [flushed EXCEPT ![d].room = sel]
                            ELSE flushed
                /\ last' = Req("login", d, sel, "ok")
        /\ UNCHANGED <<patients, visits, TRANSCRIPTS, inflight, rooms_data>>

\* Variant: logging out also sends the room's waiting visits back to the
\* queue.
logout_requeues(d) ==
    /\ d \in sessions
    /\ users' = [users EXCEPT ![d] = [status |-> "away", room |-> None]]
    /\ visits' = [v \in DOMAIN visits |->
                    IF visits[v].status = "waiting"
                       /\ visits[v].room = users[d].room
                    THEN [visits[v] EXCEPT !.status = "queued",
                                           !.room = None]
                    ELSE visits[v]]
    /\ sessions' = sessions \ {d}
    /\ last' = Req("logout", d, None, "ok")
    /\ UNCHANGED <<patients, TRANSCRIPTS, inflight, rooms_data>>

\* -------------------------------------------------------------- /logout
logout(d) ==
    /\ d \in sessions
    /\ users' = [users EXCEPT ![d] = [status |-> "away", room |-> None]]
    /\ sessions' = sessions \ {d}
    /\ last' = Req("logout", d, None, "ok")
    /\ UNCHANGED <<patients, visits, TRANSCRIPTS, inflight, rooms_data>>

\* ------------------------------------------------ /doctor/toggle_status
toggle_status(d, s) ==
    /\ d \in sessions
    /\ users' = [users EXCEPT ![d].status = s]
    /\ last' = Req("toggle_status", d, None, s)
    /\ UNCHANGED <<patients, visits, TRANSCRIPTS, sessions, inflight, rooms_data>>

\* -------------------------------------------- nurse_dashboard, POST
\* find_available_room(): rooms 1..10 in ascending order; the first one
\* that has an online doctor and no visit in status "in_consultation".
RECURSIVE room_from(_)
room_from(r) ==
    IF r > NumRooms THEN None
    ELSE IF OnlineIn(users, r) = {} THEN room_from(r + 1)
    ELSE IF \E v \in DOMAIN visits :
               visits[v].room = r /\ visits[v].status = "in_consultation"
         THEN room_from(r + 1)
    ELSE r

\* Variant: the claimed room with the fewest waiting visits, the lowest
\* room number on a tie.
find_available_room_least_loaded ==
    LET claimed == {r \in 1..NumRooms : OnlineIn(users, r) # {}}
        wc(r) == Cardinality({v \in DOMAIN visits :
                     visits[v].room = r /\ visits[v].status = "waiting"})
    IN  IF claimed = {} THEN None
        ELSE CHOOSE r \in claimed : \A q \in claimed :
                 wc(r) < wc(q) \/ (wc(r) = wc(q) /\ r <= q)

find_available_room == room_from(1)

\* Variant: status left to the column default, "waiting".
new_visit_default_status(pid, assigned_room) ==
    [patient_id |-> pid,
     doctor_id  |-> None,
     status     |-> "waiting",
     room       |-> assigned_room,
     soap_note  |-> None]

\* Visit(patient_id=pid, status=..., symptoms=..., room=assigned_room)
new_visit(pid, assigned_room) ==
    [patient_id |-> pid,
     doctor_id  |-> None,
     status     |-> IF assigned_room # None THEN "waiting" ELSE "queued",
     room       |-> assigned_room,
     soap_note  |-> None]

\* Patient.query.filter_by(ic_number=ic).first()
patient_by_ic(ic) == First({p \in DOMAIN patients : patients[p] = ic})

\* action == "register_new"
register_new(ic) ==
    IF patient_by_ic(ic) # None
    THEN /\ last' = Req("register_new", None, None, "DuplicateIdentifier")
         /\ UNCHANGED <<users, patients, visits, TRANSCRIPTS, sessions, inflight, rooms_data>>
    ELSE LET pid == NextId(DOMAIN patients)
             vid == NextId(DOMAIN visits)
             nv  == new_visit(pid, find_available_room)
         IN  /\ pid <= MaxPatients
             /\ vid <= MaxVisits
             /\ patients' = Put(patients, pid, ic)
             /\ visits' = Put(visits, vid, nv)
             /\ last' = Req("register_new", None, vid, nv.status)
             /\ UNCHANGED <<users, TRANSCRIPTS, sessions, inflight, rooms_data>>

\* action == "add_existing_to_queue": patient_id is taken from the form
\* as it is, with no lookup.
add_existing_to_queue(pid) ==
    LET vid == NextId(DOMAIN visits)
        nv  == new_visit(pid, find_available_room)
    IN  /\ vid <= MaxVisits
        /\ visits' = Put(visits, vid, nv)
        /\ last' = Req("add_existing_to_queue", None, vid, nv.status)
        /\ UNCHANGED <<users, patients, TRANSCRIPTS, sessions, inflight, rooms_data>>

\* ------------------------------------------------ /nurse/delete_patient
delete_patient(ic) ==
    LET p == patient_by_ic(ic)
    IN  /\ p # None
        /\ visits' = Restrict(visits,
                        {v \in DOMAIN visits : visits[v].patient_id # p})
        /\ patients' = Restrict(patients, DOMAIN patients \ {p})
        /\ last' = Req("delete_patient", None, None, "ok")
        /\ UNCHANGED <<users, TRANSCRIPTS, sessions, inflight, rooms_data>>

\* Variant: the handler also marks the visit "in_consultation".
start_consultation_marks(d, v) ==
    /\ d \in sessions
    /\ v \in DOMAIN visits
    /\ visits' = [visits EXCEPT ![v].doctor_id = d,
                                ![v].status = "in_consultation"]
    /\ TRANSCRIPTS' = Put(TRANSCRIPTS, v, <<>>)
    /\ last' = Req("start_consultation", d, v, "ok")
    /\ UNCHANGED <<users, patients, sessions, inflight, rooms_data>>

\* --------------------------------------- /start_consultation/<visit_id>
start_consultation(d, v) ==
    /\ d \in sessions
    /\ v \in DOMAIN visits
    /\ visits' = [visits EXCEPT ![v].doctor_id = d]
    /\ TRANSCRIPTS' = Put(TRANSCRIPTS, v, <<>>)
    /\ last' = Req("start_consultation", d, v, "ok")
    /\ UNCHANGED <<users, patients, sessions, inflight, rooms_data>>

\* Variant: the note is stored and the action field is ignored.
save_consultation_note_only(v, note, finalize) ==
    /\ v \in DOMAIN visits
    /\ visits' = [visits EXCEPT ![v].soap_note = note]
    /\ last' = Req("save_consultation", None, v,
                   IF finalize THEN "finalize" ELSE "draft")
    /\ UNCHANGED <<users, patients, TRANSCRIPTS, sessions, inflight, rooms_data>>

\* Variant: a draft save puts the visit back to "waiting".
save_consultation_reopens(v, note, finalize) ==
    /\ v \in DOMAIN visits
    /\ visits' = [visits EXCEPT
                    ![v].soap_note = note,
                    ![v].status = IF finalize THEN "completed" ELSE "waiting"]
    /\ last' = Req("save_consultation", None, v,
                   IF finalize THEN "finalize" ELSE "draft")
    /\ UNCHANGED <<users, patients, TRANSCRIPTS, sessions, inflight, rooms_data>>

\* ---------------------------------------------------- /save_consultation
save_consultation(v, note, finalize) ==
    /\ v \in DOMAIN visits
    /\ visits' = [visits EXCEPT
                    ![v].soap_note = note,
                    ![v].status = IF finalize THEN "completed" ELSE @]
    /\ last' = Req("save_consultation", None, v,
                   IF finalize THEN "finalize" ELSE "draft")
    /\ UNCHANGED <<users, patients, TRANSCRIPTS, sessions, inflight, rooms_data>>

\* ------------------------------------- nurse_dashboard, the room board
\* status_text of rooms_data for room r
status_text(r) ==
    LET doc              == First(OnlineIn(users, r))
        visit_consulting == First({v \in DOMAIN visits :
                               visits[v].room = r
                               /\ visits[v].status = "in_consultation"})
        visit_waiting    == First({v \in DOMAIN visits :
                               visits[v].room = r
                               /\ visits[v].status = "waiting"})
    IN  IF doc = None THEN "Unavailable"
        ELSE IF visit_consulting # None THEN "In Consultation"
        ELSE IF visit_waiting # None THEN "Patient Waiting"
        ELSE "Open"

Next ==
    \/ \E ic \in ICs : register_new(ic)
    \/ \E pid \in PatientIds : add_existing_to_queue(pid)
    \/ \E ic \in ICs : delete_patient(ic)
    \/ \E d \in Doctors, v \in VisitIds : start_consultation(d, v)
    \/ \E v \in VisitIds, note \in Notes, finalize \in BOOLEAN :
          save_consultation(v, note, finalize)
    \/ \E d \in Doctors, sel \in FormRooms : login(d, sel)
    \/ \E d \in Doctors : logout(d)
    \/ \E d \in Doctors, s \in StatusVals : toggle_status(d, s)

Spec == Init /\ [][Next]_vars

\* ------------------------------------------------ the room board alone
\* The visit a room's card shows: visit_consulting, else visit_waiting.
board_visit(r) ==
    LET visit_consulting == First({v \in DOMAIN visits :
                               visits[v].room = r
                               /\ visits[v].status = "in_consultation"})
        visit_waiting    == First({v \in DOMAIN visits :
                               visits[v].room = r
                               /\ visits[v].status = "waiting"})
    IN  IF visit_consulting # None THEN visit_consulting ELSE visit_waiting

\* GET /nurse/dashboard: rooms_data, one entry per room 1..10.  The entry
\* reads visit.patient.name; visit.patient is None when no Patient row has
\* the visit's patient_id, and the request ends in an AttributeError.
nurse_dashboard_get ==
    /\ IF \E r \in 1..NumRooms :
             /\ board_visit(r) # None
             /\ visits[board_visit(r)].patient_id \notin DOMAIN patients
       THEN rooms_data' = <<"AttributeError">>
       ELSE rooms_data' =
              [r \in 1..NumRooms |->
                  [status_text |-> status_text(r),
                   has_doctor  |-> OnlineIn(users, r) # {},
                   has_patient |-> board_visit(r) # None]]
    /\ UNCHANGED <<users, patients, visits, TRANSCRIPTS, sessions, inflight,
                   last>>

\* The nurse's desk with doctors logging in: registrations and the board.
NextBoard ==
    \/ \E d \in Doctors, sel \in FormRooms : login(d, sel)
    \/ \E ic \in ICs : register_new(ic)
    \/ \E pid \in PatientIds : add_existing_to_queue(pid)
    \/ nurse_dashboard_get

SpecBoard == Init /\ [][NextBoard]_vars

\* ------------------------------------ requests served at the same time
\* The server handles requests in threads.  A handler's queries run outside
\* a transaction; its first INSERT or DELETE takes the database's write
\* lock, which it keeps until commit.  A handler is therefore two steps:
\* what it reads before its first write, then its writes up to the commit.

\* Ghost: the claimed rooms, when there are two or more and none has a
\* waiting visit; otherwise the empty set.
seen_rooms ==
    LET claimed == {r \in 1..NumRooms : OnlineIn(users, r) # {}}
    IN  IF /\ Cardinality(claimed) >= 2
           /\ \A v \in DOMAIN visits :
                 visits[v].status = "waiting" => visits[v].room \notin claimed
        THEN claimed ELSE {}

\* add_existing_to_queue up to find_available_room()
add_existing_begin(s, pid) ==
    /\ inflight[s].pc = "idle"
    /\ inflight' = [inflight EXCEPT ![s] =
          [Idle EXCEPT !.op = "add_existing_to_queue", !.pc = "read",
                       !.arg = pid, !.room = find_available_room,
                       !.seen = seen_rooms,
                       !.known = (pid \in DOMAIN patients)]]
    /\ UNCHANGED <<users, patients, visits, TRANSCRIPTS, sessions, rooms_data,
                   last>>

\* Variant: the room is chosen again, least loaded first, inside the
\* transaction that inserts the visit.
add_existing_commit_atomic(s) ==
    LET vid == NextId(DOMAIN visits)
        nv  == new_visit(inflight[s].arg, find_available_room_least_loaded)
    IN  /\ inflight[s].op = "add_existing_to_queue"
        /\ inflight[s].pc = "read"
        /\ vid <= MaxVisits
        /\ visits' = Put(visits, vid, nv)
        /\ inflight' = [inflight EXCEPT ![s].pc = "done", ![s].vid = vid,
                                        ![s].room = nv.room,
                                        ![s].res = nv.status]
        /\ UNCHANGED <<users, patients, TRANSCRIPTS, sessions, rooms_data,
                       last>>

\* add_existing_to_queue from Visit(...) to commit
add_existing_commit(s) ==
    LET vid == NextId(DOMAIN visits)
        nv  == new_visit(inflight[s].arg, inflight[s].room)
    IN  /\ inflight[s].op = "add_existing_to_queue"
        /\ inflight[s].pc = "read"
        /\ vid <= MaxVisits
        /\ visits' = Put(visits, vid, nv)
        /\ inflight' = [inflight EXCEPT ![s].pc = "done", ![s].vid = vid,
                                        ![s].res = nv.status]
        /\ UNCHANGED <<users, patients, TRANSCRIPTS, sessions, rooms_data,
                       last>>

\* register_new up to the IC lookup
register_new_begin(s, ic) ==
    /\ inflight[s].pc = "idle"
    /\ inflight' = [inflight EXCEPT ![s] =
          IF patient_by_ic(ic) # None
          THEN [Idle EXCEPT !.op = "register_new", !.pc = "done",
                            !.arg = ic, !.res = "DuplicateIdentifier"]
          ELSE [Idle EXCEPT !.op = "register_new", !.pc = "read",
                            !.arg = ic]]
    /\ UNCHANGED <<users, patients, visits, TRANSCRIPTS, sessions, rooms_data,
                   last>>

\* Variant: ic_number without unique=True.
register_new_commit_no_unique(s) ==
    LET pid == NextId(DOMAIN patients)
        vid == NextId(DOMAIN visits)
        nv  == new_visit(pid, find_available_room)
    IN  /\ inflight[s].op = "register_new"
        /\ inflight[s].pc = "read"
        /\ vid <= MaxVisits
        /\ patients' = Put(patients, pid, inflight[s].arg)
        /\ visits' = Put(visits, vid, nv)
        /\ inflight' = [inflight EXCEPT ![s].pc = "done", ![s].vid = vid,
                           ![s].room = nv.room, ![s].res = nv.status,
                           ![s].seen = seen_rooms]
        /\ UNCHANGED <<users, TRANSCRIPTS, sessions, rooms_data, last>>

\* register_new from the Patient INSERT (flush) to commit.  The INSERT
\* fails on the unique ic_number when a Patient with the IC exists by now.
register_new_commit(s) ==
    LET pid == NextId(DOMAIN patients)
        vid == NextId(DOMAIN visits)
        nv  == new_visit(pid, find_available_room)
    IN  /\ inflight[s].op = "register_new"
        /\ inflight[s].pc = "read"
        /\ IF patient_by_ic(inflight[s].arg) # None
           THEN /\ inflight' = [inflight EXCEPT ![s].pc = "done",
                                               ![s].res = "IntegrityError"]
                /\ UNCHANGED <<patients, visits>>
           ELSE /\ vid <= MaxVisits
                /\ patients' = Put(patients, pid, inflight[s].arg)
                /\ visits' = Put(visits, vid, nv)
                /\ inflight' = [inflight EXCEPT ![s].pc = "done",
                                   ![s].vid = vid, ![s].room = nv.room,
                                   ![s].res = nv.status,
                                   ![s].seen = seen_rooms]
        /\ UNCHANGED <<users, TRANSCRIPTS, sessions, rooms_data, last>>

\* delete_patient up to first_or_404()
delete_patient_begin(s, ic) ==
    LET p == patient_by_ic(ic)
    IN  /\ inflight[s].pc = "idle"
        /\ p # None
        /\ inflight' = [inflight EXCEPT ![s] =
              [Idle EXCEPT !.op = "delete_patient", !.pc = "read",
                           !.arg = p]]
        /\ UNCHANGED <<users, patients, visits, TRANSCRIPTS, sessions,
                       rooms_data, last>>

\* delete_patient from the Visit DELETE to commit, by the id read before
delete_patient_commit(s) ==
    LET p == inflight[s].arg
    IN  /\ inflight[s].op = "delete_patient"
        /\ inflight[s].pc = "read"
        /\ visits' = Restrict(visits,
                        {v \in DOMAIN visits : visits[v].patient_id # p})
        /\ patients' = Restrict(patients, DOMAIN patients \ {p})
        /\ inflight' = [inflight EXCEPT ![s].pc = "done", ![s].res = "ok"]
        /\ UNCHANGED <<users, TRANSCRIPTS, sessions, rooms_data, last>>

\* The response is sent; the thread takes the next request.
respond(s) ==
    /\ inflight[s].pc = "done"
    /\ inflight' = [inflight EXCEPT ![s] = Idle]
    /\ UNCHANGED <<users, patients, visits, TRANSCRIPTS, sessions, rooms_data,
                   last>>

NextRegister ==
    \/ \E d \in Doctors, sel \in FormRooms : login(d, sel)
    \/ \E s \in Slots, pid \in PatientIds : add_existing_begin(s, pid)
    \/ \E s \in Slots : add_existing_commit(s)
    \/ \E s \in Slots, ic \in ICs : register_new_begin(s, ic)
    \/ \E s \in Slots : register_new_commit(s)
    \/ \E s \in Slots, ic \in ICs : delete_patient_begin(s, ic)
    \/ \E s \in Slots : delete_patient_commit(s)
    \/ \E s \in Slots : respond(s)

SpecRegister == Init /\ [][NextRegister]_vars

\* POST /login by doctor d up to the occupant query.  When the loaded row
\* is not online, user.status = "online" makes it dirty and the autoflush
\* before the occupant query takes the write lock: the rest of the handler
\* runs as one step, as in login.  When the row is already online nothing
\* is flushed and the occupant query runs outside a transaction; the room
\* is written at commit.
login_begin(s, d, sel) ==
    LET flushed  == [users EXCEPT ![d].status = "online"]
        occupant == First(OnlineIn(flushed, sel))
        refused  == sel # None /\ occupant # None /\ occupant # d
        written  == IF sel # None /\ ~refused
                    THEN [flushed EXCEPT ![d].room = sel]
                    ELSE flushed
        waits    == users[d].status = "online" /\ written # users
        req      == [Idle EXCEPT
                       !.op = "login", !.arg = d, !.room = sel,
                       !.known = (sel # None /\ OnlineIn(users, sel) = {}),
                       !.raced = \E t \in Slots \ {s} :
                                    /\ inflight[t].op = "login"
                                    /\ inflight[t].pc = "checked"
                                    /\ inflight[t].room = sel
                                    /\ inflight[t].arg # d]
    IN  /\ inflight[s].pc = "idle"
        /\ sessions' = sessions \cup {d}
        /\ IF refused
           THEN /\ users' = users
                /\ inflight' = [inflight EXCEPT ![s] =
                      [req EXCEPT !.pc = "done", !.res = "RoomConflict"]]
           ELSE IF waits
           THEN /\ users' = users
                /\ inflight' = [inflight EXCEPT ![s] =
                      [req EXCEPT !.pc = "checked"]]
           ELSE /\ users' = written
                /\ inflight' = [inflight EXCEPT ![s] =
                      [req EXCEPT !.pc = "done", !.res = "ok"]]
        /\ UNCHANGED <<patients, visits, TRANSCRIPTS, rooms_data, last>>

\* login: user.room = selected_room reaches the database at commit.
login_commit(s) ==
    /\ inflight[s].op = "login"
    /\ inflight[s].pc = "checked"
    /\ users' = [users EXCEPT ![inflight[s].arg].room = inflight[s].room]
    /\ inflight' = [inflight EXCEPT ![s].pc = "done", ![s].res = "ok"]
    /\ UNCHANGED <<patients, visits, TRANSCRIPTS, sessions, rooms_data, last>>

NextLogin ==
    \/ \E s \in Slots, d \in Doctors, sel \in FormRooms : login_begin(s, d, sel)
    \/ \E s \in Slots : login_commit(s)
    \/ \E s \in Slots : respond(s)
    \/ \E d \in Doctors : logout(d)
    \/ \E d \in Doctors, st \in StatusVals : toggle_status(d, st)

SpecLogin == Init /\ [][NextLogin]_vars

\* ------------------------------------------------------ /process_audio
\* Text is a sequence of characters.
Chars == {"a", " "}

RECURSIVE lstrip(_)
lstrip(t) == IF t # <<>> /\ Head(t) = " " THEN lstrip(Tail(t)) ELSE t

RECURSIVE rstrip(_)
rstrip(t) ==
    IF t # <<>> /\ t[Len(t)] = " " THEN rstrip(SubSeq(t, 1, Len(t) - 1))
    ELSE t

\* str.strip()
strip(t) == rstrip(lstrip(t))

\* transcribe_wav: the decoded text, stripped.
transcribe_wav ==
    {strip(t) : t \in UNION {[1..n -> Chars] : n \in 0..MaxChunk}}

\* POST /process_audio: visit_id is a form field, used as the key as it is;
\* no session and no Visit row is needed.
process_audio(visit_id, chunk_text) ==
    LET prev == IF visit_id \in DOMAIN TRANSCRIPTS
                THEN TRANSCRIPTS[visit_id] ELSE <<>>
        full == IF prev # <<>>
                THEN strip(prev \o <<" ">> \o chunk_text)
                ELSE chunk_text
    IN  /\ Len(full) <= MaxText
        /\ TRANSCRIPTS' = Put(TRANSCRIPTS, visit_id, full)
        /\ last' = Req("process_audio", None, visit_id, "ok")
        /\ UNCHANGED <<users, patients, visits, sessions, inflight,
                       rooms_data>>

\* A consultation: a visit is registered, a doctor (logged in without
\* choosing a room) opens it, audio chunks arrive, the note is saved.
NextAudio ==
    \/ \E d \in Doctors : login(d, None)
    \/ \E ic \in ICs : register_new(ic)
    \/ \E pid \in PatientIds : add_existing_to_queue(pid)
    \/ \E d \in Doctors, v \in VisitIds : start_consultation(d, v)
    \/ \E v \in VisitIds, chunk_text \in transcribe_wav :
          process_audio(v, chunk_text)
    \/ \E v \in VisitIds, note \in Notes, finalize \in BOOLEAN :
          save_consultation(v, note, finalize)

SpecAudio == Init /\ [][NextAudio]_vars

\* ============================================================== properties
Rooms == 1..NumRooms
RegisterOps == {"register_new", "add_existing_to_queue"}

\* Rooms 1..10 that some doctor holds while online (ListActive).
ClaimedRooms ==
    {r \in Rooms : \E d \in Doctors :
        users[d].status = "online" /\ users[d].room = r}

VisitsIn(r, statuses) ==
    {v \in DOMAIN visits : visits[v].room = r /\ visits[v].status \in statuses}

waitingCount(r) == Cardinality(VisitsIn(r, {"waiting"}))

\* Doctor d is online and holds room r.
Claims(d, r) ==
    r # None /\ users[d].status = "online" /\ users[d].room = r

\* The visit a registration step creates, if it creates one.
Created == DOMAIN visits' \ DOMAIN visits

\* ------------------------------------------------------------------- C1
\* C1 (as claimed): in every reachable state each room has at most one
\* visit whose status is waiting or in_consultation.
C1_OneActiveVisitPerRoom ==
    \A r \in Rooms :
        Cardinality(VisitsIn(r, {"waiting", "in_consultation"})) <= 1

\* C1 (amended): in every reachable state each room has at most one visit
\* whose status is in_consultation; waiting visits may share a room.
C1_OneInConsultationPerRoom ==
    \A r \in Rooms : Cardinality(VisitsIn(r, {"in_consultation"})) <= 1

\* Two visits wait in one room and a doctor has started both.
C1_Witness ==
    \E r \in Rooms : \E v, w \in VisitsIn(r, {"waiting"}) :
        v # w /\ visits[v].doctor_id # None /\ visits[w].doctor_id # None

\* ------------------------------------------------------------------- C2
\* C2: in every reachable state no two distinct doctors are both online
\* with the same claimed room.
C2_NoSharedRoom ==
    \A d, e \in Doctors :
        (d # e /\ users[d].status = "online" /\ users[e].status = "online"
              /\ users[d].room # None)
        => users[d].room # users[e].room

\* ------------------------------------------------------------------- C3
\* The claimed room with the fewest waiting visits, lowest number on a tie.
LeastLoadedRoom ==
    CHOOSE r \in ClaimedRooms : \A q \in ClaimedRooms :
        waitingCount(r) < waitingCount(q)
        \/ (waitingCount(r) = waitingCount(q) /\ r <= q)

\* Claimed rooms that hold no visit in status in_consultation.
FreeClaimedRooms ==
    {r \in ClaimedRooms : VisitsIn(r, {"in_consultation"}) = {}}

\* C3 (as claimed): whenever some doctor is online with a claimed room, a
\* registration creates a waiting visit in the claimed room with the fewest
\* waiting visits, ties broken by the smallest room number.
C3_RoutesToLeastLoaded ==
    [][(last'.op \in RegisterOps /\ last'.res # "DuplicateIdentifier"
           /\ ClaimedRooms # {})
       => /\ Created = {last'.arg}
          /\ visits'[last'.arg].status = "waiting"
          /\ visits'[last'.arg].room = LeastLoadedRoom]_vars

\* C3 (amended): whenever some doctor is online with a claimed room that
\* holds no in_consultation visit, a registration creates a waiting visit
\* in the smallest-numbered such room, whatever the rooms' waiting counts.
C3_RoutesToLowestRoom ==
    [][(last'.op \in RegisterOps /\ last'.res # "DuplicateIdentifier"
           /\ FreeClaimedRooms # {})
       => /\ Created = {last'.arg}
          /\ visits'[last'.arg].status = "waiting"
          /\ visits'[last'.arg].room = Min(FreeClaimedRooms)
          /\ visits'[last'.arg].doctor_id = None]_vars

\* A registration has just put a second waiting visit into a room while a
\* higher-numbered claimed room has none.
C3_Witness ==
    /\ last.op \in RegisterOps
    /\ last.arg \in DOMAIN visits
    /\ visits[last.arg].status = "waiting"
    /\ waitingCount(visits[last.arg].room) >= 2
    /\ \E q \in ClaimedRooms :
          q > visits[last.arg].room /\ waitingCount(q) = 0

\* ------------------------------------------------------------------- C4
\* C4: when no doctor is online with a claimed room, a registration (other
\* than a duplicate IC) does create a visit, with status queued and no room.
C4_QueuedWhenNoRoomClaimed ==
    [][(last'.op \in RegisterOps /\ last'.res # "DuplicateIdentifier"
           /\ ClaimedRooms = {})
       => /\ Created = {last'.arg}
          /\ visits'[last'.arg].status = "queued"
          /\ visits'[last'.arg].room = None
          /\ last'.res = "queued"]_vars

\* A registration has just queued a visit although a doctor holds a room
\* while away and another is online without a room.
C4_Witness ==
    /\ last.op \in RegisterOps
    /\ last.arg \in DOMAIN visits
    /\ visits[last.arg].status = "queued"
    /\ visits[last.arg].room = None
    /\ ClaimedRooms = {}
    /\ \E d \in Doctors : users[d].status = "away" /\ users[d].room # None
    /\ \E d \in Doctors : users[d].status = "online" /\ users[d].room = None

\* ------------------------------------------------------------------- C5
\* C5: a start_consultation by a doctor who is not online in the visit's
\* room is refused as Unauthorized and leaves the visit's status and doctor
\* reference unchanged.
C5_StartRefusedOutsideRoom ==
    [][\A d \in Doctors, v \in DOMAIN visits :
          (last'.op = "start_consultation" /\ last'.who = d /\ last'.arg = v
              /\ ~Claims(d, visits[v].room))
          => /\ last'.res = "Unauthorized"
             /\ v \in DOMAIN visits'
             /\ visits'[v].status = visits[v].status
             /\ visits'[v].doctor_id = visits[v].doctor_id]_vars

\* ------------------------------------------------------------------- C6
\* C6: a start_consultation on a waiting visit by the doctor who is online
\* in its room moves the visit from waiting to in_consultation and binds
\* its doctor reference to that doctor.
C6_StartMovesToInConsultation ==
    [][\A d \in Doctors, v \in DOMAIN visits :
          (last'.op = "start_consultation" /\ last'.who = d /\ last'.arg = v
              /\ visits[v].status = "waiting" /\ Claims(d, visits[v].room))
          => /\ visits'[v].status = "in_consultation"
             /\ visits'[v].doctor_id = d]_vars

\* ------------------------------------------------------------------- C7
\* C7: a finalizing save_consultation on a visit in status in_consultation
\* stores the note and sets status completed; on a visit in any other
\* status it is refused and changes neither status nor note.
C7_FinalizeOnlyFromInConsultation ==
    [][\A v \in DOMAIN visits :
          (last'.op = "save_consultation" /\ last'.res = "finalize"
              /\ last'.arg = v)
          => IF visits[v].status = "in_consultation"
             THEN /\ visits'[v].status = "completed"
                  /\ visits'[v].soap_note # None
             ELSE /\ visits'[v].status = visits[v].status
                  /\ visits'[v].soap_note = visits[v].soap_note]_vars

\* ------------------------------------------------------------------- C8
\* C8: once a visit's status is completed (or cancelled), no step changes
\* that visit's status for as long as the visit exists.
C8_TerminalAbsorbing ==
    [][\A v \in DOMAIN visits \cap DOMAIN visits' :
          visits[v].status \in {"completed", "cancelled"}
          => visits'[v].status = visits[v].status]_vars

\* A draft save has just been served on a completed visit that a doctor
\* had started: the visit is still completed.
C8_Witness ==
    /\ last.op = "save_consultation"
    /\ last.res = "draft"
    /\ last.arg \in DOMAIN visits
    /\ visits[last.arg].status = "completed"
    /\ visits[last.arg].doctor_id # None

\* ------------------------------------------------------------------ C10
\* C10: a login that selects a room held by a different online doctor is
\* refused with RoomConflict and leaves the stored status and room of every
\* doctor, the caller included, as they were.
C10_LoginConflictRefused ==
    [][\A d \in Doctors, sel \in Rooms :
          (last'.op = "login" /\ last'.who = d /\ last'.arg = sel
              /\ \E o \in Doctors \ {d} : Claims(o, sel))
          => /\ last'.res = "RoomConflict"
             /\ users' = users]_vars

\* ------------------------------------------------------------------ C11
\* C11: every way a doctor goes away (logout, toggle_status to away) sets
\* the status away and clears the room, and a second identical request
\* leaves the doctor rows as the first one left them.
C11_AwayClearsRoom ==
    [][\A d \in Doctors :
          (last'.who = d
              /\ \/ last'.op = "logout"
                 \/ last'.op = "toggle_status" /\ last'.res = "away")
          => /\ users'[d].status = "away"
             /\ users'[d].room = None
             /\ (last = last' => users' = users)]_vars

\* ------------------------------------------------------------------ C15
\* C15: every visit in every reachable state references an existing
\* patient (a registration for an unknown patient id creates no visit).
C15_VisitsReferencePatients ==
    \A v \in DOMAIN visits : visits[v].patient_id \in DOMAIN patients

\* ------------------------------------------------------------------ C17
\* C17: a draft save on a waiting or in_consultation visit overwrites the
\* note and leaves status, room, doctor and patient unchanged; on a visit in
\* any other status it is refused; repeating it with the same note changes
\* nothing.
C17_DraftOnlyWhileActive ==
    [][\A v \in DOMAIN visits :
          (last'.op = "save_consultation" /\ last'.res = "draft"
              /\ last'.arg = v)
          => /\ IF visits[v].status \in {"waiting", "in_consultation"}
                THEN /\ visits'[v].soap_note \in Notes
                     /\ visits' = [visits EXCEPT
                                     ![v].soap_note = visits'[v].soap_note]
                ELSE visits' = visits
             /\ (last = last' /\ visits'[v].soap_note = visits[v].soap_note
                    => visits' = visits)]_vars

\* ------------------------------------------------------------------ C18
\* C18: after a finalize on the only visit of a room, started by the doctor
\* who is online in that room, the visit is completed and the room board
\* shows the room as Open.
C18_ScenarioA ==
    (/\ last.op = "save_consultation"
     /\ last.res = "finalize"
     /\ last.arg \in DOMAIN visits
     /\ visits[last.arg].doctor_id # None
     /\ Claims(visits[last.arg].doctor_id, visits[last.arg].room)
     /\ {v \in DOMAIN visits : visits[v].room = visits[last.arg].room}
            = {last.arg})
    => /\ visits[last.arg].status = "completed"
       /\ status_text(visits[last.arg].room) = "Open"

\* The room's doctor has started and then finalized the room's only visit.
C18_Witness ==
    /\ last.op = "save_consultation"
    /\ last.res = "finalize"
    /\ last.arg \in DOMAIN visits
    /\ last.arg \in DOMAIN TRANSCRIPTS
    /\ visits[last.arg].doctor_id # None
    /\ Claims(visits[last.arg].doctor_id, visits[last.arg].room)
    /\ {v \in DOMAIN visits : visits[v].room = visits[last.arg].room}
           = {last.arg}
    /\ visits[last.arg].status = "completed"
    /\ visits[last.arg].soap_note # None

\* ------------------------------------------------------------------ C20
\* C20: no step turns a queued visit into a waiting one or gives it a room.
C20_QueuedNeverPromoted ==
    [][\A v \in DOMAIN visits \cap DOMAIN visits' :
          visits[v].status = "queued"
          => /\ visits'[v].status # "waiting"
             /\ visits'[v].room = None]_vars

\* A doctor has just come online in a room while a visit is queued.
C20_Witness ==
    /\ last.op = "login"
    /\ last.res = "ok"
    /\ last.arg # None
    /\ Claims(last.who, last.arg)
    /\ \E v \in DOMAIN visits :
          visits[v].status = "queued" /\ visits[v].room = None

\* ------------------------------------------------------------------ C19
\* The board as the claim words it.
ClaimedBoard(r) ==
    IF r \notin ClaimedRooms THEN "Unavailable"
    ELSE IF VisitsIn(r, {"in_consultation"}) # {} THEN "In Consultation"
    ELSE IF VisitsIn(r, {"waiting"}) # {} THEN "Patient Waiting"
    ELSE "Open"

\* C19: every rendering of the board gives, for each room 1..10,
\* Unavailable when no online doctor holds the room, else In Consultation
\* when a visit of the room is in_consultation, else Patient Waiting when
\* one is waiting, else Open; and it changes no User, Patient or Visit row.
C19_BoardReportsEveryRoom ==
    [][rooms_data' # rooms_data
         => /\ Len(rooms_data') = NumRooms
            /\ \A r \in Rooms :
                  rooms_data'[r].status_text = ClaimedBoard(r)'
            /\ UNCHANGED <<users, patients, visits>>]_vars

\* ------------------------------------------------------------------ C12
\* Two finished registrations that both chose their room while the same two
\* or more rooms were claimed and none of them had a waiting visit.
RacedRegistrations ==
    {st \in Slots \X Slots :
        /\ st[1] < st[2]
        /\ \A s \in {st[1], st[2]} :
              /\ inflight[s].op \in RegisterOps
              /\ inflight[s].pc = "done"
              /\ inflight[s].seen # {}
        /\ inflight[st[1]].seen = inflight[st[2]].seen}

\* C12 (as claimed): two concurrent registrations issued when two rooms are
\* claimed by online doctors and both have no waiting visit are routed to
\* different rooms, never both to the lower one.
C12_ConcurrentRoutedApart ==
    \A st \in RacedRegistrations :
        inflight[st[1]].room # inflight[st[2]].room

\* C12 (amended): two such registrations end as in either serial order of
\* the code's first-fit routing: both visits are waiting in the
\* smallest-numbered claimed room.
C12_ConcurrentBothLowest ==
    \A st \in RacedRegistrations : \A s \in {st[1], st[2]} :
        /\ inflight[s].res = "waiting"
        /\ inflight[s].room = Min(inflight[s].seen)

\* Both visits of two such registrations are in the table, waiting in the
\* same room, while another claimed room has no waiting visit.
C12_Witness ==
    \E st \in RacedRegistrations :
        /\ inflight[st[1]].vid # inflight[st[2]].vid
        /\ \A s \in {st[1], st[2]} :
              /\ inflight[s].vid \in DOMAIN visits
              /\ visits[inflight[s].vid].status = "waiting"
              /\ visits[inflight[s].vid].room = inflight[s].room
        /\ inflight[st[1]].room = inflight[st[2]].room
        /\ \E r \in ClaimedRooms : waitingCount(r) = 0

\* ------------------------------------------------------------------ C14
ICUnique ==
    \A p, q \in DOMAIN patients : patients[p] = patients[q] => p = q

\* The requests whose register_new ends at this step, by slot.
RegisterEnds ==
    {s \in Slots : /\ inflight[s].pc # "done"
                   /\ inflight'[s].pc = "done"
                   /\ inflight'[s].op = "register_new"}

\* C14: no two patients share an IC number in any reachable state, also
\* when register_new requests with the same IC overlap; a register_new
\* whose IC exists when it looks it up, or when it inserts, fails and
\* creates neither a patient nor a visit.
C14_ICUnique ==
    /\ []ICUnique
    /\ [][\A s \in RegisterEnds :
             IF patient_by_ic(inflight'[s].arg) # None
             THEN /\ inflight'[s].res \in
                        {"DuplicateIdentifier", "IntegrityError"}
                  /\ UNCHANGED <<patients, visits>>
             ELSE /\ DOMAIN patients' \ DOMAIN patients # {}
                  /\ DOMAIN visits' \ DOMAIN visits # {}]_vars

\* Two register_new requests with the same IC overlapped: one created the
\* patient, the other passed the lookup and failed at its insert.
C14_Witness ==
    \E s, t \in Slots :
        /\ inflight[s].op = "register_new"
        /\ inflight[s].res = "IntegrityError"
        /\ inflight[t].op = "register_new"
        /\ inflight[t].res \in {"waiting", "queued"}
        /\ inflight[t].arg = inflight[s].arg
        /\ Cardinality({p \in DOMAIN patients :
                           patients[p] = inflight[s].arg}) = 1

\* ------------------------------------------------------------------ C16
\* C16: once delete_patient has removed patient p, no visit references p,
\* also when an add_existing_to_queue for p that began while p existed
\* overlaps the delete.
C16_DeleteLeavesNoVisit ==
    \A s, t \in Slots :
        (/\ inflight[s].op = "delete_patient"
         /\ inflight[s].pc = "done"
         /\ inflight[s].arg \notin DOMAIN patients
         /\ inflight[t].op = "add_existing_to_queue"
         /\ inflight[t].pc = "done"
         /\ inflight[t].known
         /\ inflight[t].arg = inflight[s].arg
         /\ inflight[t].vid \in DOMAIN visits)
        => visits[inflight[t].vid].patient_id # inflight[s].arg

\* ------------------------------------------------------------------ C13
\* Two finished logins of different doctors for the same room, each of
\* which found the room unclaimed, one begun between the other's occupant
\* query and its commit.
RacedLogins ==
    {st \in Slots \X Slots :
        /\ st[1] # st[2]
        /\ \A s \in {st[1], st[2]} :
              /\ inflight[s].op = "login"
              /\ inflight[s].pc = "done"
              /\ inflight[s].known
        /\ inflight[st[1]].arg # inflight[st[2]].arg
        /\ inflight[st[1]].room = inflight[st[2]].room
        /\ inflight[st[2]].raced}

\* C13: when two different doctors log in at the same time selecting the
\* same unclaimed room, at most one of them ends online with that room and
\* the other is refused with RoomConflict.
C13_OneLoginWinsRoom ==
    \A st \in RacedLogins :
        /\ ~ (/\ Claims(inflight[st[1]].arg, inflight[st[1]].room)
              /\ Claims(inflight[st[2]].arg, inflight[st[2]].room))
        /\ \E s \in {st[1], st[2]} : inflight[s].res = "RoomConflict"

\* ------------------------------------------------------------------ C21
IsPrefix(t, u) == Len(t) <= Len(u) /\ SubSeq(u, 1, Len(t)) = t

\* Visits a doctor has opened and nobody has finalized.
InProgress ==
    {v \in DOMAIN visits \cap DOMAIN TRANSCRIPTS :
        visits[v].doctor_id # None /\ visits[v].status # "completed"}

\* Every step keeps or extends the text of each consultation in progress.
AppendOnlyStep ==
    \A v \in InProgress :
        /\ v \in DOMAIN TRANSCRIPTS'
        /\ IsPrefix(TRANSCRIPTS[v], TRANSCRIPTS'[v])

\* A process_audio changes at most the buffer of the visit it names.
OwnBufferStep ==
    last'.op = "process_audio"
        => \A k \in DOMAIN TRANSCRIPTS \ {last'.arg} :
              k \in DOMAIN TRANSCRIPTS' /\ TRANSCRIPTS'[k] = TRANSCRIPTS[k]

\* A finalize leaves the visit without transcript text.
ClearedOnFinalizeStep ==
    (last'.op = "save_consultation" /\ last'.res = "finalize")
        => \/ last'.arg \notin DOMAIN TRANSCRIPTS'
           \/ TRANSCRIPTS'[last'.arg] = <<>>

\* C21: while a consultation is in progress every step keeps or extends the
\* visit's transcript, a process_audio touches no other visit's transcript,
\* and a finalize clears the visit's transcript.
C21_TranscriptBuffer ==
    [][AppendOnlyStep /\ OwnBufferStep /\ ClearedOnFinalizeStep]_vars

\* ------------------------------------------------------------------ C22
\* C22: no reachable state holds a visit whose status is in_consultation,
\* cancelled or anything else than queued, waiting or completed.
C22_OnlyThreeStatuses ==
    \A v \in DOMAIN visits :
        visits[v].status \in {"queued", "waiting", "completed"}

\* A doctor has opened a visit that is still waiting, and another visit has
\* been finalized.
C22_Witness ==
    \E v, w \in DOMAIN visits :
        /\ visits[v].doctor_id # None
        /\ v \in DOMAIN TRANSCRIPTS
        /\ visits[v].status = "waiting"
        /\ visits[w].status = "completed"

\* ------------------------------------------------------------------ C23
\* C23: in every reachable state a queued visit has no room and a waiting
\* visit has a room in 1..10, and no step changes the room or the patient
\* reference of a visit that exists before and after it.
C23_RoomAndPatientFixed ==
    /\ [](\A v \in DOMAIN visits :
             /\ visits[v].status = "queued" => visits[v].room = None
             /\ visits[v].status = "waiting" => visits[v].room \in Rooms)
    /\ [][\A v \in DOMAIN visits \cap DOMAIN visits' :
             /\ visits'[v].room = visits[v].room
             /\ visits'[v].patient_id = visits[v].patient_id]_vars

\* The doctor of a room has just logged out while a visit waits in that
\* room, and another visit is queued.
C23_Witness ==
    /\ last.op = "logout"
    /\ \E v, w \in DOMAIN visits :
          /\ visits[v].status = "waiting"
          /\ visits[v].room \notin ClaimedRooms
          /\ \A d \in Doctors : users[d].room # visits[v].room
          /\ visits[w].status = "queued"
====
